---- MODULE Spec2Model ----
(***************************************************************************)
(* pycatia: the CATIADocHandler context manager (src/pycatia/context.py)   *)
(* driven by a caller through __init__, __enter__, the with-block and      *)
(* __exit__, against the CATIA automation collaborator (application,       *)
(* documents collection, document), plus the unit_conversion table that    *)
(* src/tests/test_unit_convertions.py exercises.                           *)
(***************************************************************************)
EXTENDS Integers, Sequences, FiniteSets, TLC

\* ------------------------------------------------------------------ bounds
\* __enter__ calls made on one handler (sequential reuse of the handler).
MaxRegions == 2
\* __exit__ calls made directly on the handler while no with-block is active.
MaxDirectExits == 1
\* Largest scalar handed to the unit conversion.
MaxValue == 20

\* ------------------------------------------------------- values and inputs
\* Python's None, and an attribute that was never assigned on the object.
None == "<None>"
Unset == "<unset>"

\* file_name arguments: absent, empty, an existing file, a missing file.
Paths == {None, "", "part.CATPart", "missing.CATPart"}
\* The files os.path.isfile finds on disk.
ExistingFiles == {"part.CATPart"}
\* new_document arguments: absent, or a document kind.
Kinds == {None, "Part", "Product"}
\* Errors the caller's with-block may raise.
BlockErrors == {"ValueError", "KeyError"}

\* Python truth test of a str-or-None value / of an object reference.
Truthy(x) == x # None /\ x # ""

isfile(p) == p \in ExistingFiles

\* Object identities handed out by the collaborator.
App(n) == "CATIAApplication#" \o ToString(n)
Documents(a) == "documents@" \o a
Doc(n) == "Document#" \o ToString(n)

\* The error an external call raises when the automation layer fails.
ComError(op) == "com_error:" \o op

VARIABLES
    pc,            \* caller position: start, init_failed, idle, block, exiting
    catia,         \* self.catia
    documents,     \* self.documents
    file_name,     \* self.file_name
    new_document,  \* self.new_document
    document,      \* self.document (Unset until __enter__ assigns it)
    calls,         \* every call made on the collaborator, in order: <<op, arg>>
    appDocs,       \* documents currently open in the CATIA application
    active,        \* the application's active document
    created,       \* number of documents the application has opened or added
    apps,          \* number of CATIAApplication() objects built
    warnings,      \* number of warnings.warn calls
    args,          \* the arguments the constructor was called with
    pending,       \* the exception the last with-block raised (None: it returned)
    raised,        \* the exception the last statement delivered to the caller
    lastOp,        \* the last handler operation the caller ran
    mark,          \* Len(calls) when the last handler operation began
    markW,         \* warnings when the last handler operation began
    acquired,      \* documents the application opened during the last __enter__
    handles,       \* every document that self.document has referred to
    regions,       \* __enter__ calls so far
    directExits,   \* direct __exit__ calls so far
    unit,          \* unit name handed to the conversion
    value,         \* scalar handed to the conversion
    result         \* the converted length in tenths of a millimetre (0: not yet)

vars == <<pc, catia, documents, file_name, new_document, document, calls,
          appDocs, active, created, apps, warnings, args, pending, raised,
          lastOp, mark, markW, acquired, handles, regions, directExits, unit,
          value, result>>

handlerVars == <<pc, catia, documents, file_name, new_document, document,
                 calls, appDocs, active, created, apps, warnings, args,
                 pending, raised, lastOp, mark, markW, acquired, handles,
                 regions, directExits>>

unitVars == <<unit, value, result>>

\* ------------------------------------------------------ the collaborator
\* State threaded through one handler method: the object's fields it may
\* assign and the collaborator's state it may change.
Snapshot ==
    [catia |-> catia, documents |-> documents, document |-> document,
     calls |-> calls, appDocs |-> appDocs, active |-> active,
     created |-> created, apps |-> apps, raised |-> None]

\* One call on the collaborator.  A failing call is logged, raises, and
\* changes nothing else.
ApplyCall(st, c, ok) ==
    LET logged == [st EXCEPT !.calls = Append(st.calls, c)] IN
    IF ~ok THEN [logged EXCEPT !.raised = ComError(c[1])]
    ELSE CASE c[1] = "CATIAApplication" ->
                [logged EXCEPT !.catia = App(st.apps + 1), !.apps = st.apps + 1]
           [] c[1] = "documents" ->
                [logged EXCEPT !.documents = Documents(st.catia)]
           [] c[1] \in {"open", "add"} ->
                [logged EXCEPT !.created = st.created + 1,
                               !.appDocs = st.appDocs \cup {Doc(st.created + 1)},
                               !.active = Doc(st.created + 1)]
           [] c[1] = "document" ->
                [logged EXCEPT !.document = st.active]
           [] c[1] = "close" ->
                [logged EXCEPT !.appDocs = st.appDocs \ {c[2]},
                               !.active = IF st.active = c[2] THEN None ELSE st.active]

\* Run the calls in order; the call at position failAt raises (0: none does)
\* and the rest are not made.
RECURSIVE Run(_, _, _)
Run(st, cs, failAt) ==
    IF cs = <<>> THEN st
    ELSE IF failAt = 1 THEN ApplyCall(st, Head(cs), FALSE)
    ELSE Run(ApplyCall(st, Head(cs), TRUE), Tail(cs),
             IF failAt = 0 THEN 0 ELSE failAt - 1)

\* ------------------------------------------------------------- the handler
\* __init__ and __enter__ both start by building the application wrapper and
\* asking it for its documents collection.
ConnectCalls == << <<"CATIAApplication", None>>, <<"documents", None>> >>

\* The file check of __init__.
InitCheckFails(fn) == Truthy(fn) /\ ~isfile(fn)

\* Faulty variant: new_document is tested before file_name.
EnterCallsKindFirst(fn, nd) ==
    IF Truthy(nd) THEN << <<"add", nd>>, <<"document", None>> >>
    ELSE IF Truthy(fn) THEN << <<"open", fn>>, <<"document", None>> >>
    ELSE <<>>

\* Faulty variant: the kind handed to add is hard-wired.
EnterCallsFixedKind(fn, nd) ==
    IF Truthy(fn) THEN << <<"open", fn>>, <<"document", None>> >>
    ELSE IF Truthy(nd) THEN << <<"add", "Part">>, <<"document", None>> >>
    ELSE <<>>

\* Faulty variant: "if" where the code has "elif".
EnterCallsBoth(fn, nd) ==
    (IF Truthy(fn) THEN << <<"open", fn>>, <<"document", None>> >> ELSE <<>>)
    \o (IF Truthy(nd) THEN << <<"add", nd>>, <<"document", None>> >> ELSE <<>>)

\* The acquisition branch of __enter__: the calls made after self.document
\* has been set to None.
EnterCalls(fn, nd) ==
    IF Truthy(fn) THEN << <<"open", fn>>, <<"document", None>> >>
    ELSE IF Truthy(nd) THEN << <<"add", nd>>, <<"document", None>> >>
    ELSE <<>>

\* Faulty variant: the close branch is lost.
ExitBranchNeverCloses(doc) == "warn"

\* The branch of __exit__: close the document, or warn.
ExitBranch(doc) == IF doc # None THEN "close" ELSE "warn"

\* Faulty variant: __exit__ returns True.
ExitSuppressesTrue == TRUE

\* __exit__ returns None, so the with statement does not swallow the
\* exception in flight.
ExitSuppresses == FALSE

HandlerInit ==
    /\ pc = "start"
    /\ catia = Unset /\ documents = Unset
    /\ file_name = Unset /\ new_document = Unset /\ document = Unset
    /\ calls = <<>> /\ appDocs = {} /\ active = None
    /\ created = 0 /\ apps = 0 /\ warnings = 0
    /\ args = <<None, None>>
    /\ pending = None /\ raised = None /\ lastOp = "none"
    /\ mark = 0 /\ markW = 0 /\ acquired = {} /\ handles = {}
    /\ regions = 0 /\ directExits = 0

Init == HandlerInit /\ unit = "mm" /\ value = 1 /\ result = 0

\* h = CATIADocHandler(fn, nd)
Construct(fn, nd, failAt) ==
    /\ pc = "start"
    /\ LET st == Run(Snapshot, ConnectCalls, failAt)
           bad == st.raised = None /\ InitCheckFails(fn) IN
       /\ catia' = st.catia /\ documents' = st.documents
       /\ calls' = st.calls /\ apps' = st.apps
       /\ file_name' = IF st.raised = None THEN fn ELSE file_name
       /\ new_document' = IF st.raised = None THEN nd ELSE new_document
       /\ raised' = IF bad THEN "CATIAApplicationException" ELSE st.raised
       /\ pc' = IF st.raised = None /\ ~bad THEN "idle" ELSE "init_failed"
    /\ lastOp' = "init" /\ mark' = Len(calls) /\ markW' = warnings
    /\ args' = <<fn, nd>>
    /\ UNCHANGED <<document, appDocs, active, created, warnings, pending,
                   acquired, handles, regions, directExits, unitVars>>

\* with h:  -- the call of h.__enter__()
Enter(failAt) ==
    /\ pc = "idle" /\ regions < MaxRegions
    /\ LET plan == EnterCalls(file_name, new_document)
           s1 == Run(Snapshot, ConnectCalls, IF failAt \in {1, 2} THEN failAt ELSE 0)
           s2 == IF s1.raised # None THEN s1
                 ELSE Run([s1 EXCEPT !.document = None], plan,
                          IF failAt > 2 THEN failAt - 2 ELSE 0) IN
       /\ failAt <= 2 + Len(plan)
       /\ catia' = s2.catia /\ documents' = s2.documents /\ document' = s2.document
       /\ calls' = s2.calls /\ apps' = s2.apps
       /\ appDocs' = s2.appDocs /\ active' = s2.active /\ created' = s2.created
       /\ acquired' = s2.appDocs \ appDocs
       /\ handles' = handles \cup ({s2.document} \ {None, Unset})
       /\ raised' = s2.raised
       /\ pc' = IF s2.raised = None THEN "block" ELSE "idle"
    /\ lastOp' = "enter" /\ mark' = Len(calls) /\ markW' = warnings
    /\ regions' = regions + 1 /\ pending' = None
    /\ UNCHANGED <<file_name, new_document, warnings, args, directExits,
                   unitVars>>

\* The with-block runs to its end.
BlockReturn ==
    /\ pc = "block"
    /\ pc' = "exiting" /\ pending' = None /\ lastOp' = "block"
    /\ UNCHANGED <<catia, documents, file_name, new_document, document, calls,
                   appDocs, active, created, apps, warnings, args, raised, mark,
                   markW, acquired, handles, regions, directExits, unitVars>>

\* The with-block raises e.
BlockRaise(e) ==
    /\ pc = "block"
    /\ pc' = "exiting" /\ pending' = e /\ lastOp' = "block"
    /\ UNCHANGED <<catia, documents, file_name, new_document, document, calls,
                   appDocs, active, created, apps, warnings, args, raised, mark,
                   markW, acquired, handles, regions, directExits, unitVars>>

\* The body of __exit__ with exception exc in flight; closeFails: the
\* document's close() raises.
ExitBody(exc, closeFails) ==
    IF ExitBranch(document) = "close"
    THEN LET st == Run(Snapshot, << <<"close", document>> >>,
                       IF closeFails THEN 1 ELSE 0) IN
         /\ calls' = st.calls /\ appDocs' = st.appDocs /\ active' = st.active
         /\ warnings' = warnings
         /\ raised' = IF st.raised # None THEN st.raised
                      ELSE IF ExitSuppresses THEN None ELSE exc
    ELSE /\ ~closeFails
         /\ warnings' = warnings + 1
         /\ raised' = IF ExitSuppresses THEN None ELSE exc
         /\ UNCHANGED <<calls, appDocs, active>>

\* Leaving the with-block: h.__exit__(type, value, traceback)
Exit(closeFails) ==
    /\ pc = "exiting"
    /\ ExitBody(pending, closeFails)
    /\ pc' = "idle" /\ lastOp' = "exit" /\ mark' = Len(calls) /\ markW' = warnings
    /\ UNCHANGED <<catia, documents, file_name, new_document, document,
                   created, apps, args, pending, acquired, handles, regions,
                   directExits, unitVars>>

\* h.__exit__(None, None, None) called while no with-block is active.
DirectExit(closeFails) ==
    /\ pc = "idle" /\ directExits < MaxDirectExits
    /\ IF document = Unset
       THEN /\ ~closeFails
            /\ raised' = "AttributeError"
            /\ UNCHANGED <<calls, appDocs, active, warnings>>
       ELSE ExitBody(None, closeFails)
    /\ lastOp' = "direct_exit" /\ mark' = Len(calls) /\ markW' = warnings
    /\ directExits' = directExits + 1
    /\ UNCHANGED <<pc, catia, documents, file_name, new_document, document,
                   created, apps, args, pending, acquired, handles, regions,
                   unitVars>>

Next ==
    \/ \E fn \in Paths, nd \in Kinds, failAt \in 0..2 : Construct(fn, nd, failAt)
    \/ \E failAt \in 0..4 : Enter(failAt)
    \/ BlockReturn
    \/ \E e \in BlockErrors : BlockRaise(e)
    \/ \E closeFails \in BOOLEAN : Exit(closeFails)
    \/ \E closeFails \in BOOLEAN : DirectExit(closeFails)

Spec == Init /\ [][Next]_vars

\* --------------------------------------------------------- unit conversion
Units == {"mm", "cm", "m", "km", "in", "mile"}

\* Faulty variant: the inch rounded to 25 mm.
unit_conversionRounded(u) ==
    CASE u = "mm" -> 10
      [] u = "cm" -> 100
      [] u = "m" -> 10000
      [] u = "km" -> 10000000
      [] u = "in" -> 250
      [] u = "mile" -> 16093440

\* The multiplier table, each entry in tenths of a millimetre per unit so
\* that the inch (25.4 mm) stays an integer.
unit_conversion(u) ==
    CASE u = "mm" -> 10
      [] u = "cm" -> 100
      [] u = "m" -> 10000
      [] u = "km" -> 10000000
      [] u = "in" -> 254
      [] u = "mile" -> 16093440

\* input_unit * unit_conversion[u]
convert_units(v, u) == v * unit_conversion(u)

UnitsInit ==
    HandlerInit /\ unit \in Units /\ value \in 1..MaxValue /\ result = 0

test_units ==
    /\ result = 0
    /\ result' = convert_units(value, unit)
    /\ UNCHANGED <<handlerVars, unit, value>>

UnitsNext == test_units

UnitsSpec == UnitsInit /\ [][UnitsNext]_vars

\* ------------------------------------------------------------- properties
\* The collaborator calls made by the last handler operation.
Since == SubSeq(calls, mark + 1, Len(calls))

CountOp(cs, ops) == Cardinality({i \in 1..Len(cs) : cs[i][1] \in ops})

CloseCount(d) == Cardinality({i \in 1..Len(calls) : calls[i] = <<"close", d>>})

Connected == << <<"CATIAApplication", None>>, <<"documents", None>> >>

\* What __exit__ is to do with the handle the object holds: one close call on
\* it and no warning, or no call and one warning.
CloseOrWarn ==
    IF document # None
    THEN Since = << <<"close", document>> >> /\ warnings = markW
    ELSE Since = <<>> /\ warnings = markW + 1

\* C1: when a with-block is left, a document acquired by the matching
\* __enter__ has close called on it exactly once (and nothing is warned); if
\* none was acquired no close call is made and one warning is issued.
C1_ExitClosesOrWarns ==
    lastOp = "exit" =>
        IF acquired # {}
        THEN \E d \in acquired :
                /\ acquired = {d}
                /\ Since = << <<"close", d>> >>
                /\ CloseCount(d) = 1
                /\ warnings = markW
        ELSE Since = <<>> /\ warnings = markW + 1

C1_Witness ==
    lastOp = "exit" /\ acquired = {Doc(1)} /\ Since = << <<"close", Doc(1)>> >>

\* C2 as stated: an error raised in the with-block still gets the
\* close-or-warn exit and then reaches the caller unchanged, whatever the
\* error and the acquisition mode.
C2_BlockErrorReraisedUnchanged ==
    lastOp = "exit" /\ pending # None => CloseOrWarn /\ raised = pending

\* C2 amended: an error raised in the with-block still gets the close-or-warn
\* exit; the caller then receives that same error unless close() itself
\* raised, in which case the caller receives the close failure; the caller
\* always receives an error.
C2_BlockErrorReraisedUnlessCloseFails ==
    lastOp = "exit" /\ pending # None =>
        /\ CloseOrWarn
        /\ raised = IF document \in appDocs THEN ComError("close") ELSE pending

C2_Witness ==
    /\ lastOp = "exit" /\ pending = "ValueError" /\ raised = "ValueError"
    /\ document = Doc(1) /\ Since = << <<"close", Doc(1)>> >>

\* C3: constructing the handler with a path that names no existing file
\* fails with CATIAApplicationException before any call on the collaborator.
C3_MissingFileFailsBeforeExternalCalls ==
    lastOp = "init" /\ Truthy(args[1]) /\ ~isfile(args[1]) =>
        /\ pc = "init_failed"
        /\ raised = "CATIAApplicationException"
        /\ calls = <<>>

\* C4: with a valid path, when the with-block starts __enter__ has called
\* open exactly once, with the caller's path, then fetched the active
\* document, and self.document is that document.
C4_OpenWithExactPath ==
    pc = "block" /\ Truthy(args[1]) /\ isfile(args[1]) =>
        /\ Since = Connected \o << <<"open", args[1]>>, <<"document", None>> >>
        /\ document \notin {None, Unset}
        /\ document = active /\ acquired = {document}

C4_Witness ==
    pc = "block" /\ args = <<"part.CATPart", "Part">> /\ document = Doc(1)

\* C5: with a document kind and no path, when the with-block starts
\* __enter__ has called add exactly once, with the caller's kind, has not
\* called open, and self.document is the document added.
C5_AddWithKind ==
    pc = "block" /\ args[1] = None /\ Truthy(args[2]) =>
        /\ Since = Connected \o << <<"add", args[2]>>, <<"document", None>> >>
        /\ CountOp(Since, {"open"}) = 0
        /\ document \notin {None, Unset}
        /\ document = active /\ acquired = {document}

C5_Witness ==
    pc = "block" /\ args = <<None, "Product">> /\ document = Doc(1)

\* C6: self.document is None after construction and before __enter__, and is
\* a document for as long as the with-block lasts when a document was
\* acquired.
C6_HandleNullBeforeRegion ==
    /\ pc = "idle" /\ regions = 0 => document = None
    /\ pc \in {"block", "exiting"} /\ acquired # {} =>
            document \notin {None, Unset}

\* C7: converting v from unit u gives v times the unit's multiplier (mm 1,
\* cm 10, m 1000, km 1e6, in 25.4, mile 1609344; here in tenths of a
\* millimetre), and 5 converts to 5, 50, 5000, 5000000, 127 and 8046720.
C7_UnitConversion ==
    result # 0 =>
        /\ unit = "mm" => result = value * 10
        /\ unit = "cm" => result = value * 10 * 10
        /\ unit = "m" => result = value * 1000 * 10
        /\ unit = "km" => result = value * 1000000 * 10
        /\ unit = "in" => result = value * 254
        /\ unit = "mile" => result = value * 1609344 * 10
        /\ value = 5 =>
              result = CASE unit = "mm" -> 50
                         [] unit = "cm" -> 500
                         [] unit = "m" -> 50000
                         [] unit = "km" -> 50000000
                         [] unit = "in" -> 1270
                         [] unit = "mile" -> 80467200

C7_Witness == unit = "in" /\ value = 5 /\ result = 1270

\* What C8 says of the last __enter__, given which arguments count as
\* supplied.
EnterDrivenBy(both, neither) ==
    lastOp = "enter" =>
        /\ CountOp(Since, {"open", "add"}) <= 1
        /\ both =>
              /\ CountOp(Since, {"add"}) = 0
              /\ pc = "block" => CountOp(Since, {"open"}) = 1
                                  /\ Since[3] = <<"open", args[1]>>
        /\ neither =>
              /\ CountOp(Since, {"open", "add"}) = 0
              /\ pc = "block" => document = None

C9_EnterFailureReleases ==
    lastOp = "enter" /\ raised # None =>
        /\ pc = "idle"
        /\ Since # <<>> /\ raised = ComError(Since[Len(Since)][1])
        /\ CountOp(Since, {"open", "add"}) <= 1
        /\ acquired \cap appDocs = {}

\* C10: over any sequence of __enter__/__exit__ calls on one handler there
\* are never more close calls than documents the handler acquired through
\* open/add, and while no with-block is active every such document has been
\* closed exactly once.
C10_ClosesMatchAcquisitions ==
    /\ CountOp(calls, {"close"}) <= Cardinality(handles)
    /\ pc = "idle" => \A d \in handles : CloseCount(d) = 1

====
